---- MODULE Spec2Model ----
(***************************************************************************)
(* Model of the recommendation service of                                  *)
(* src/azure_function/recommendation-function/function_app.py:             *)
(* the model load at import time, the HTTP handler recommendation_function,*)
(* extract_request_params and generate_recommendations.                    *)
(***************************************************************************)
EXTENDS Integers, Sequences, FiniteSets, TLC

\* ------------------------------------------------------------------ bounds
\* number of items of the trainset (inner ids 0 .. NItems-1)
NItems == 3
\* largest count the core function is called with directly (SpecCore)
MaxCount == 4
\* largest predicted score (scores 0 .. MaxScore)
MaxScore == 1
\* number of requests handled concurrently (SpecConc)
NSlots == 2

\* ------------------------------------------------------- program constants
DefaultNum == 10
MinNum == 1
MaxNum == 100

\* ------------------------------------------------------------ Python values
\* A Python value is a tagged record; a str is a sequence of characters, a
\* float is kept as twice its value (so 5 stands for 2.5).
PyNone == [t |-> "none"]
PyInt(n) == [t |-> "int", v |-> n]
PyStr(s) == [t |-> "str", v |-> s]
PyBool(b) == [t |-> "bool", v |-> b]
PyFloat(h) == [t |-> "float", v |-> h]

Digits == <<"0", "1", "2", "3", "4", "5", "6", "7", "8", "9">>

DigitValue(c) == (CHOOSE k \in 1..10 : Digits[k] = c) - 1

IsDigit(c) == \E k \in 1..10 : Digits[k] = c

RECURSIVE DigitsOf(_)
DigitsOf(n) == IF n < 10 THEN <<Digits[n + 1]>>
               ELSE Append(DigitsOf(n \div 10), Digits[(n % 10) + 1])

\* str(n) of an int
StrOfInt(n) == IF n < 0 THEN <<"-">> \o DigitsOf(-n) ELSE DigitsOf(n)

\* str(x) of an item identifier
Str(x) == IF x.t = "int" THEN StrOfInt(x.v) ELSE x.v

RECURSIVE ParseDigits(_, _)
ParseDigits(s, acc) == IF s = <<>> THEN acc
                       ELSE ParseDigits(Tail(s), 10 * acc + DigitValue(Head(s)))

AllDigits(s) == s # <<>> /\ \A k \in 1..Len(s) : IsDigit(s[k])

\* int(s) of a str succeeds on an optional sign followed by digits
IntParses(s) == \/ AllDigits(s)
                \/ (s # <<>> /\ Head(s) = "-" /\ AllDigits(Tail(s)))

IntOfStr(s) == IF Head(s) = "-" THEN 0 - ParseDigits(Tail(s), 0)
               ELSE ParseDigits(s, 0)

LowerChar(c) == CASE c = "T" -> "t"
                  [] c = "R" -> "r"
                  [] c = "U" -> "u"
                  [] c = "E" -> "e"
                  [] OTHER -> c

\* s.lower()
Lower(s) == [k \in 1..Len(s) |-> LowerChar(s[k])]

\* bool(x): the truth value Python's `not x` and `if x:` test
Truthy(x) == CASE x.t = "none" -> FALSE
               [] x.t = "int" -> x.v # 0
               [] x.t = "float" -> x.v # 0
               [] x.t = "bool" -> x.v
               [] x.t = "str" -> x.v # <<>>

\* ------------------------------------------------------------ the trainset
Items == 0..(NItems - 1)

\* raw user identifiers of the training data, by inner id - 1
RawUsers == <<1, 2>>

Users == 1..Len(RawUsers)

\* predicted scores: ties and strict orders both occur
Scores == 0..MaxScore

\* raw identifier of inner item i: not monotone in i
RawIidOf(i) == (7 * i + 13) % 20

\* A trained model: ur[u] the inner ids of the items user u rated, est[u][i]
\* the estimate predict() gives. Every user and every item of a trainset has
\* at least one rating.
MkModel(ur, est) == [loaded |-> TRUE, ur |-> ur, est |-> est]

NoModel == [loaded |-> FALSE]

UrChoices == {ur \in [Users -> (SUBSET Items) \ {{}}] :
                \A i \in Items : \E u \in Users : i \in ur[u]}

\* Each user's scores range over every score vector; a call reads the scores
\* of one user only, so the second user's are tied to the first's (reversed).
EstOf(e) == [u \in Users |-> [i \in Items |-> IF u = 1 THEN e[i] ELSE MaxScore - e[i]]]

EstChoices == {EstOf(e) : e \in [Items -> Scores]}

AllModels == {MkModel(ur, est) : ur \in UrChoices, est \in EstChoices}

\* trainset.all_items()
all_items(model) == [k \in 1..NItems |-> k - 1]

\* trainset.to_raw_iid(inner_id)
to_raw_iid(model, i) == PyInt(RawIidOf(i))

\* trainset.to_inner_uid(ruid) raises ValueError for an identifier not of the trainset
KnowsUser(model, ruid) == ruid.t = "int" /\ \E u \in Users : RawUsers[u] = ruid.v

to_inner_uid(model, ruid) == CHOOSE u \in Users : RawUsers[u] = ruid.v

\* trainset.ir[inner_id], as the set of users who rated the item
ir(model, i) == {u \in Users : i \in model.ur[u]}

\* model.predict(user_id, item_id).est for a known user and item
PredictEst(model, ruid, riid) ==
  model.est[to_inner_uid(model, ruid)][CHOOSE i \in Items : to_raw_iid(model, i) = riid]

\* ------------------------------------------------ generate_recommendations
\* seq[:n]
SliceTo(seq, n) == IF n >= 0 THEN SubSeq(seq, 1, IF n < Len(seq) THEN n ELSE Len(seq))
                   ELSE SubSeq(seq, 1, IF Len(seq) + n > 0 THEN Len(seq) + n ELSE 0)

RECURSIVE InsertDescUnstable(_, _)
InsertDescUnstable(sorted, x) ==
  IF sorted = <<>> THEN <<x>>
  ELSE IF Head(sorted)[2] > x[2] THEN <<Head(sorted)>> \o InsertDescUnstable(Tail(sorted), x)
  ELSE <<x>> \o sorted

\* where a stable descending sort puts pair x in the sorted pairs: after
\* every pair whose key is not smaller
RECURSIVE InsertDesc(_, _)
InsertDesc(sorted, x) ==
  IF sorted = <<>> THEN <<x>>
  ELSE IF Head(sorted)[2] >= x[2] THEN <<Head(sorted)>> \o InsertDesc(Tail(sorted), x)
  ELSE <<x>> \o sorted

\* list.sort(key=lambda x: x[1], reverse=True) and sorted(..., reverse=True)
RECURSIVE SortDescFrom(_, _)
SortDescFrom(pairs, sorted) ==
  IF pairs = <<>> THEN sorted
  ELSE SortDescFrom(Tail(pairs), InsertDesc(sorted, Head(pairs)))

SortDesc(pairs) == SortDescFrom(pairs, <<>>)

\* [x for x in seq if x not in excluded]
RECURSIVE FilterNotIn(_, _)
FilterNotIn(seq, excluded) ==
  IF seq = <<>> THEN <<>>
  ELSE IF Head(seq) \notin excluded THEN <<Head(seq)>> \o FilterNotIn(Tail(seq), excluded)
  ELSE FilterNotIn(Tail(seq), excluded)

\* the try block: seen_items and user_exists
UserExists(model, user_id) == KnowsUser(model, user_id)

SeenItems(model, user_id) ==
  IF UserExists(model, user_id)
  THEN {to_raw_iid(model, i) : i \in model.ur[to_inner_uid(model, user_id)]}
  ELSE {}

CandidateItemsNoFilter(model, seen_items, exclude_seen) ==
  [k \in 1..NItems |-> to_raw_iid(model, all_items(model)[k])]

\* candidate_items of the known-user branch
CandidateItems(model, seen_items, exclude_seen) ==
  LET raws == [k \in 1..NItems |-> to_raw_iid(model, all_items(model)[k])]
  IN IF exclude_seen THEN FilterNotIn(raws, seen_items) ELSE raws

\* predictions, sorted
RankedPredictions(model, user_id, candidate_items) ==
  SortDesc([k \in 1..Len(candidate_items) |->
              <<candidate_items[k], PredictEst(model, user_id, candidate_items[k])>>])

ItemPopularityByUser(model, i) == Cardinality({u \in Users : u = 1 /\ i \in model.ur[u]})

\* len(trainset.ir[inner_id])
ItemPopularity(model, i) == Cardinality(ir(model, i))

\* most_popular
MostPopular(model) ==
  SortDesc([k \in 1..NItems |->
              <<to_raw_iid(model, all_items(model)[k]), ItemPopularity(model, all_items(model)[k])>>])

\* [str(item_id) for item_id, _ in pairs[:n]]
TopItems(pairs, n) == LET top == SliceTo(pairs, n) IN [k \in 1..Len(top) |-> Str(top[k][1])]

KnownBranch(model, user_id, num_recommendations, exclude_seen) ==
  [items |-> TopItems(RankedPredictions(model, user_id,
                         CandidateItems(model, SeenItems(model, user_id), exclude_seen)),
                      num_recommendations),
   user_exists |-> TRUE]

UnknownBranchOnlyWhenExcluding(model, num_recommendations, exclude_seen) ==
  [items |-> IF exclude_seen THEN TopItems(MostPopular(model), num_recommendations) ELSE <<>>,
   user_exists |-> FALSE]

\* the except ValueError branch and the popularity fallback
UnknownBranch(model, num_recommendations, exclude_seen) ==
  [items |-> TopItems(MostPopular(model), num_recommendations), user_exists |-> FALSE]

\* generate_recommendations for an int num_recommendations; exclude_seen is the
\* truth value of the argument
generate_recommendations(model, user_id, num_recommendations, exclude_seen) ==
  IF UserExists(model, user_id)
  THEN KnownBranch(model, user_id, num_recommendations, exclude_seen)
  ELSE UnknownBranch(model, num_recommendations, exclude_seen)

\* ------------------------------------------------- extract_request_params
\* a key the query string or the JSON object does not hold
Absent == [t |-> "absent"]

\* dict.get(key, default)
GetOr(field, default) == IF field.t = "absent" THEN default ELSE field

TrueStr == <<"t", "r", "u", "e">>

\* int(x) of the user_id; TypeError and ValueError leave x as it is
IntCoerce(x) == CASE x.t = "str" -> IF IntParses(x.v) THEN PyInt(IntOfStr(x.v)) ELSE x
                  [] x.t = "bool" -> PyInt(IF x.v THEN 1 ELSE 0)
                  [] x.t = "float" -> PyInt(IF x.v >= 0 THEN x.v \div 2 ELSE 0 - ((0 - x.v) \div 2))
                  [] OTHER -> x

\* twice the number a numeric Python value compares as
Twice(x) == CASE x.t = "int" -> 2 * x.v
              [] x.t = "float" -> x.v
              [] x.t = "bool" -> IF x.v THEN 2 ELSE 0

IsNumber(x) == x.t \in {"int", "float", "bool"}

\* min(a, b) and max(a, b) of two arguments: the first one unless the second is
\* strictly smaller (larger)
PyMin(a, b) == IF Twice(b) < Twice(a) THEN b ELSE a

PyMax(a, b) == IF Twice(b) > Twice(a) THEN b ELSE a

\* max(1, min(num_recommendations, 100))
Clamp(num) == PyMax(PyInt(MinNum), PyMin(num, PyInt(MaxNum)))

\* The outcome of extract_request_params: the triple it returns, or raised.
\* body.kind: "invalid" (get_json raises ValueError), "falsy" (an empty
\* object), "nonobject" (a non-empty JSON value without .get), "object".
extract_request_params(req) ==
  LET q_user == GetOr(req.q_user_id, PyNone)
      q_num == GetOr(req.q_num, PyInt(DefaultNum))
      int_raises == q_num.t = "str" /\ ~IntParses(q_num.v)
      q_exclude == PyBool(Lower(GetOr(req.q_exclude, PyStr(TrueStr)).v) = TrueStr)
      reads_body == ~Truthy(q_user)
      get_raises == reads_body /\ req.body.kind = "nonobject"
      from_body == reads_body /\ req.body.kind = "object"
      user_id == IF from_body THEN GetOr(req.body.user_id, PyNone) ELSE q_user
      num == IF from_body THEN GetOr(req.body.num, PyInt(DefaultNum))
             ELSE IF q_num.t = "str" THEN PyInt(IntOfStr(q_num.v)) ELSE q_num
      exclude == IF from_body THEN GetOr(req.body.exclude, PyBool(TRUE)) ELSE q_exclude
  IN IF int_raises \/ get_raises \/ ~IsNumber(num)
     THEN [raised |-> TRUE]
     ELSE [raised |-> FALSE, user_id |-> IntCoerce(user_id), num |-> Clamp(num),
           exclude |-> exclude]

\* --------------------------------------------------- recommendation_function
\* create_error_response(error, message, status_code)
create_error_response(error, status_code) == [status |-> status_code, error |-> error]

NotCalled == [called |-> FALSE]

ModelNeverUnavailable(model) == FALSE

\* MODEL is None
ModelUnavailable(model) == ~model.loaded

\* The call of generate_recommendations in the handler: it raises on a model
\* that is None (model.trainset) and on a slice bound that is no integer.
GenerateCall(model, user_id, num, exclude) ==
  IF ~model.loaded \/ num.t = "float"
  THEN [raised |-> TRUE]
  ELSE [raised |-> FALSE,
        result |-> generate_recommendations(model, user_id, num.v, Truthy(exclude))]

\* The handler from the call of generate_recommendations on: the response
\* and the arguments of the call.
Recommendations(model, p) ==
  LET g == GenerateCall(model, p.user_id, p.num, p.exclude)
      args == [called |-> TRUE, user_id |-> p.user_id, num |-> p.num, exclude |-> p.exclude]
  IN IF g.raised
     THEN [resp |-> create_error_response("Erreur interne du moteur de recommandation", 500),
           args |-> args]
     ELSE [resp |-> [status |-> 200, user_id |-> p.user_id,
                     known |-> IF g.result.user_exists THEN "Oui" ELSE "Non",
                     count |-> Len(g.result.items), items |-> g.result.items],
           args |-> args]

\* The handler on the outcome p of extract_request_params: the except branch
\* and the missing user_id, else nothing ("go on").
ParamsResponse(p) ==
  IF p.raised
  THEN [stop |-> TRUE,
        resp |-> create_error_response("Erreur interne du moteur de recommandation", 500)]
  ELSE IF ~Truthy(p.user_id)
  THEN [stop |-> TRUE, resp |-> create_error_response("user_id manquant", 400)]
  ELSE [stop |-> FALSE]

\* The handler's response to req with the global at model, and the arguments
\* it gave generate_recommendations.
recommendation_function(model, req) ==
  IF ModelUnavailable(model)
  THEN [resp |-> create_error_response("Modele non charge", 500), args |-> NotCalled]
  ELSE LET p == extract_request_params(req)
           r == ParamsResponse(p)
       IN IF r.stop THEN [resp |-> r.resp, args |-> NotCalled]
          ELSE Recommendations(model, p)

ModelAfterRequestMarksSeen(model, out) ==
  IF out.args.called /\ out.resp.status = 200 /\ out.resp.known = "Oui"
  THEN [model EXCEPT !.ur[to_inner_uid(model, out.args.user_id)] =
          @ \cup {i \in Items : \E k \in 1..Len(out.resp.items) :
                                  out.resp.items[k] = Str(to_raw_iid(model, i))}]
  ELSE model

\* The global MODEL after a request: the handler declares it global and
\* never assigns it, and generate_recommendations only reads the trainset.
ModelAfterRequest(model, out) == model

\* ----------------------------------------------------- the load at import
LoadFailures == {[ok |-> FALSE, why |-> "no connection string"],
                 [ok |-> FALSE, why |-> "download failed"],
                 [ok |-> FALSE, why |-> "unpickle failed"]}

\* MODEL after the try/except at import time
LoadedModel(store) == IF store.ok THEN store.model ELSE NoModel

\* -------------------------------------------------------------------- state
VARIABLES
  blob,   \* what the load at import time finds in the blob store
  MODEL,  \* the global MODEL
  pc,     \* "startup" before the module-level load has run, then "serving"
  call,   \* the last direct call of generate_recommendations and its result
  last,   \* the last request recommendation_function handled, and its response
  slots   \* the requests in flight, handled step by step

vars == <<blob, MODEL, pc, call, last, slots>>

NoCall == [made |-> FALSE]

NoLast == [handled |-> FALSE]

IdleSlot == [pc |-> "idle"]

\* --------------------------------------------- the core function on its own
\* user identifiers the core is called with: two of the trainset, an int and a
\* str that are not
CoreUserIds == {PyInt(1), PyInt(2), PyInt(9), PyStr(<<"1">>)}

InitCore ==
  /\ MODEL \in AllModels
  /\ blob = [ok |-> TRUE, model |-> MODEL]
  /\ pc = "serving"
  /\ call = NoCall
  /\ last = NoLast
  /\ slots = [s \in 1..NSlots |-> IdleSlot]

\* one call of the function on the loaded model
Recommend(user_id, count, exclude_seen) ==
  /\ ~call.made
  /\ call' = [made |-> TRUE, user_id |-> user_id, count |-> count, exclude |-> exclude_seen,
              result |-> generate_recommendations(MODEL, user_id, count, exclude_seen)]
  /\ UNCHANGED <<blob, MODEL, pc, last, slots>>

NextCore == \E user_id \in CoreUserIds, count \in 1..MaxCount, exclude_seen \in BOOLEAN :
              Recommend(user_id, count, exclude_seen)

SpecCore == InitCore /\ [][NextCore]_vars

\* ------------------------------------------------------ the HTTP service
\* trained models the blob store may hold
ServedModels ==
  {MkModel(ur, EstOf(e)) :
     ur \in {[u \in Users |-> IF u = 1 THEN {0} ELSE Items],
             [u \in Users |-> IF u = 1 THEN Items \ {1} ELSE {1}]},
     e \in {[i \in Items |-> i % (MaxScore + 1)], [i \in Items |-> 0]}}

Blobs == LoadFailures \cup {[ok |-> TRUE, model |-> m] : m \in ServedModels}

FalseStr == <<"f", "a", "l", "s", "e">>

QUserIds == {Absent, PyStr(<<"0">>), PyStr(<<"1">>), PyStr(<<"9">>), PyStr(<<"a">>)}

QNums == {Absent, PyStr(<<"0">>), PyStr(<<"2">>), PyStr(<<"1", "0", "1">>), PyStr(<<"a">>)}

QExcludes == {Absent, PyStr(<<"T", "R", "U", "E">>), PyStr(FalseStr), PyStr(<<"1">>)}

BUserIds == {Absent, PyInt(0), PyInt(1), PyInt(9)}

BNums == {Absent, PyInt(-2), PyInt(2), PyInt(500), PyFloat(5), PyStr(<<"2">>)}

BExcludes == {Absent, PyBool(TRUE), PyBool(FALSE), PyStr(FalseStr)}

Bodies == {[kind |-> "invalid"], [kind |-> "falsy"], [kind |-> "nonobject"]}
          \cup {[kind |-> "object", user_id |-> u, num |-> n, exclude |-> e] :
                  u \in BUserIds, n \in BNums, e \in BExcludes}

Requests == {[q_user_id |-> u, q_num |-> n, q_exclude |-> e, body |-> b] :
               u \in QUserIds, n \in QNums, e \in QExcludes, b \in Bodies}

\* the requests a run goes on with after its first one, and those handled
\* concurrently
FewRequests == {[q_user_id |-> u, q_num |-> n, q_exclude |-> e, body |-> [kind |-> "invalid"]] :
                  u \in {Absent, PyStr(<<"1">>), PyStr(<<"9">>)},
                  n \in {PyStr(<<"2">>)},
                  e \in {Absent, PyStr(FalseStr)}}

Init ==
  /\ blob \in Blobs
  /\ MODEL = NoModel
  /\ pc = "startup"
  /\ call = NoCall
  /\ last = NoLast
  /\ slots = [s \in 1..NSlots |-> IdleSlot]

\* the module-level try/except that sets MODEL
LoadModel ==
  /\ pc = "startup"
  /\ MODEL' = LoadedModel(blob)
  /\ pc' = "serving"
  /\ UNCHANGED <<blob, call, last, slots>>

\* one request to /recommendations, handled from start to end; the first
\* request of a run is any of Requests, the later ones are of FewRequests
HandleRequest(req) ==
  /\ pc = "serving"
  /\ LET out == recommendation_function(MODEL, req)
     IN /\ last' = [handled |-> TRUE, req |-> req, resp |-> out.resp, args |-> out.args]
        /\ MODEL' = ModelAfterRequest(MODEL, out)
  /\ UNCHANGED <<blob, pc, call, slots>>

FirstRequest == ~last.handled /\ \E req \in Requests : HandleRequest(req)

LaterRequest == last.handled /\ \E req \in FewRequests : HandleRequest(req)

Next == LoadModel \/ FirstRequest \/ LaterRequest

Spec == Init /\ [][Next]_vars

\* --------------------------------------- requests handled concurrently
\* a request arrives and a worker takes it
Arrive(s, req) ==
  /\ pc = "serving"
  /\ slots[s].pc = "idle"
  /\ slots' = [slots EXCEPT ![s] = [pc |-> "check", req |-> req]]
  /\ UNCHANGED <<blob, MODEL, pc, call, last>>

\* if MODEL is None: return the error response
CheckModelStep(s) ==
  /\ slots[s].pc = "check"
  /\ slots' = [slots EXCEPT ![s] =
       IF ModelUnavailable(MODEL)
       THEN [pc |-> "done", req |-> slots[s].req, args |-> NotCalled,
             resp |-> create_error_response("Modele non charge", 500)]
       ELSE [pc |-> "extract", req |-> slots[s].req]]
  /\ UNCHANGED <<blob, MODEL, pc, call, last>>

\* extract_request_params and the user_id test
ExtractStep(s) ==
  /\ slots[s].pc = "extract"
  /\ LET p == extract_request_params(slots[s].req)
         r == ParamsResponse(p)
     IN slots' = [slots EXCEPT ![s] =
          IF r.stop
          THEN [pc |-> "done", req |-> slots[s].req, args |-> NotCalled, resp |-> r.resp]
          ELSE [pc |-> "generate", req |-> slots[s].req, params |-> p]]
  /\ UNCHANGED <<blob, MODEL, pc, call, last>>

\* generate_recommendations on the global MODEL, and the response
GenerateStep(s) ==
  /\ slots[s].pc = "generate"
  /\ LET out == Recommendations(MODEL, slots[s].params)
     IN /\ slots' = [slots EXCEPT ![s] =
               [pc |-> "done", req |-> slots[s].req, args |-> out.args, resp |-> out.resp]]
        /\ MODEL' = ModelAfterRequest(MODEL, out)
  /\ UNCHANGED <<blob, pc, call, last>>

\* the response is sent and the worker is free again
Deliver(s) ==
  /\ slots[s].pc = "done"
  /\ slots' = [slots EXCEPT ![s] = IdleSlot]
  /\ UNCHANGED <<blob, MODEL, pc, call, last>>

NextConc ==
  \/ LoadModel
  \/ \E s \in 1..NSlots :
       \/ \E req \in FewRequests : Arrive(s, req)
       \/ CheckModelStep(s)
       \/ ExtractStep(s)
       \/ GenerateStep(s)
       \/ Deliver(s)

SpecConc == Init /\ [][NextConc]_vars

\* ------------------------------------------------- what the claims speak of
\* inner id of the item a returned string names
InnerOfStr(s) == CHOOSE i \in Items : StrOfInt(RawIidOf(i)) = s

IsItemStr(s) == \E i \in Items : StrOfInt(RawIidOf(i)) = s

InnerOfUser(user_id) == CHOOSE u \in Users : RawUsers[u] = user_id.v

IsTrainedUser(user_id) == user_id.t = "int" /\ \E u \in Users : RawUsers[u] = user_id.v

\* item a ranks before item b: higher score, or equal score and earlier in
\* the model's item enumeration
Before(score, a, b) == score[a] > score[b] \/ (score[a] = score[b] /\ a < b)

\* items are the first n of pool, ranked
IsRankedPrefix(items, pool, score, n) ==
  /\ Len(items) = (IF n < Cardinality(pool) THEN n ELSE Cardinality(pool))
  /\ \A k \in 1..Len(items) : IsItemStr(items[k]) /\ InnerOfStr(items[k]) \in pool
  /\ \A k, l \in 1..Len(items) :
       k < l => Before(score, InnerOfStr(items[k]), InnerOfStr(items[l]))
  /\ \A i \in pool : (\A k \in 1..Len(items) : InnerOfStr(items[k]) # i) =>
       \A k \in 1..Len(items) : Before(score, InnerOfStr(items[k]), i)

Popularity == [i \in Items |-> Cardinality({u \in Users : i \in MODEL.ur[u]})]

CallKnown == call.made /\ IsTrainedUser(call.user_id)

CallUnknown == call.made /\ ~IsTrainedUser(call.user_id)

CallSeen == MODEL.ur[InnerOfUser(call.user_id)]

\* C1: a known user called with exclude_seen = true gets no item of their
\* seen-set; when fewer than count items are unseen, the result is exactly the
\* unseen items, ranked, and no seen item fills it up.
C1_ExcludeSeenDisjoint ==
  (CallKnown /\ call.exclude) =>
    /\ \A k \in 1..Len(call.result.items) :
         call.result.items[k] \notin {StrOfInt(RawIidOf(i)) : i \in CallSeen}
    /\ Cardinality(Items \ CallSeen) < call.count =>
         /\ Len(call.result.items) = Cardinality(Items \ CallSeen)
         /\ {call.result.items[k] : k \in 1..Len(call.result.items)}
              = {StrOfInt(RawIidOf(i)) : i \in Items \ CallSeen}
         /\ IsRankedPrefix(call.result.items, Items \ CallSeen,
                           MODEL.est[InnerOfUser(call.user_id)], call.count)

C1_Witness ==
  /\ CallKnown /\ call.exclude
  /\ Cardinality(Items \ CallSeen) = 2
  /\ call.count > 2
  /\ Len(call.result.items) = 2

\* C3: a known user gets user_known = true and the first count items of the
\* pool (all items, minus the seen ones when exclude_seen) by score
\* descending, equal scores in the model's enumeration order.
C3_KnownUserRanking ==
  CallKnown =>
    /\ call.result.user_exists
    /\ IsRankedPrefix(call.result.items,
                      IF call.exclude THEN Items \ CallSeen ELSE Items,
                      MODEL.est[InnerOfUser(call.user_id)], call.count)

C3_Witness ==
  /\ CallKnown /\ ~call.exclude /\ call.count = 2
  /\ LET est == MODEL.est[InnerOfUser(call.user_id)]
     IN est[0] = 0 /\ est[1] = 1 /\ est[2] = 1
  /\ call.result.items = <<StrOfInt(RawIidOf(1)), StrOfInt(RawIidOf(2))>>

\* C4: an unknown user gets the count items of the whole item universe with
\* the most training interactions, most popular first, equally popular items
\* in the model's enumeration order.
C4_UnknownUserPopularity ==
  CallUnknown => IsRankedPrefix(call.result.items, Items, Popularity, call.count)

C4_Witness ==
  /\ CallUnknown /\ call.count = 2
  /\ Popularity[0] = 1 /\ Popularity[1] = 2 /\ Popularity[2] = 1
  /\ call.result.items = <<StrOfInt(RawIidOf(1)), StrOfInt(RawIidOf(0))>>

\* C5: a user identifier the trainset does not translate gives user_known =
\* false, and the same list whether exclude_seen is true or false.
C5_UnknownUserIgnoresExcludeSeen ==
  CallUnknown =>
    /\ ~call.result.user_exists
    /\ call.result.items =
         generate_recommendations(MODEL, call.user_id, call.count, ~call.exclude).items

C5_Witness ==
  /\ CallUnknown /\ ~call.exclude /\ call.user_id.t = "str"
  /\ ~call.result.user_exists
  /\ Len(call.result.items) = NItems

Handled == last.handled

Called == last.handled /\ last.args.called

\* sequences without a repeated element
NoDuplicates(seq) == \A k, l \in 1..Len(seq) : k # l => seq[k] # seq[l]

\* size of the candidate pool of the call the handler made
PoolSize(model, args) ==
  IF IsTrainedUser(args.user_id) /\ Truthy(args.exclude)
  THEN Cardinality(Items \ model.ur[InnerOfUser(args.user_id)])
  ELSE NItems

\* C2: every request that reaches generate_recommendations gets a list no
\* longer than the count and than the candidate pool, without duplicates, and
\* without error when the count exceeds the pool.
C2_ListBoundedNoError ==
  Called =>
    /\ last.resp.status = 200
    /\ Len(last.resp.items) <= last.args.num.v
    /\ Len(last.resp.items) <= PoolSize(MODEL, last.args)
    /\ NoDuplicates(last.resp.items)

\* The same for the requests whose count reaches the core as an integer.
ListBoundedForIntegerCount ==
  (Called /\ last.args.num.t = "int") =>
    /\ last.resp.status = 200
    /\ Len(last.resp.items) <= last.args.num.v
    /\ Len(last.resp.items) <= PoolSize(MODEL, last.args)
    /\ NoDuplicates(last.resp.items)

\* C6: after a failed load the model handle is null in every later state,
\* every request gets the 500 model-unavailable error, and
\* generate_recommendations is not called.
C6_FailedLoadFailsFast ==
  (pc = "serving" /\ ~blob.ok) =>
    /\ ~MODEL.loaded
    /\ Handled => /\ last.resp = [status |-> 500, error |-> "Modele non charge"]
                  /\ ~last.args.called

C6_Witness ==
  /\ pc = "serving" /\ ~blob.ok /\ Handled
  /\ last.req.q_user_id = Absent /\ last.req.body.kind = "invalid"
  /\ last.resp.status = 500

UserIdAbsent(req) ==
  /\ req.q_user_id = Absent
  /\ req.body.kind = "object" => req.body.user_id = Absent

\* C7: with the model loaded, the response is a 400 exactly when user_id is
\* in neither the query nor the body, then without a call of
\* generate_recommendations; a request that gives a user_id is recommended to.
C7_MissingUserIdOnly400 ==
  (Handled /\ MODEL.loaded) =>
    /\ last.resp.status = 400 <=> UserIdAbsent(last.req)
    /\ UserIdAbsent(last.req) => ~last.args.called
    /\ ~UserIdAbsent(last.req) => last.args.called

\* C8: exclude_seen reaches generate_recommendations as true when the request
\* gives none, as the query string compared with "true" without case when the
\* query gives it (also when user_id is in the body), as the boolean of the
\* JSON body when the body gives it.
C8_ExcludeSeenPassed ==
  Called =>
    LET q == last.req.q_exclude
        b == last.req.body
        in_body == b.kind = "object" /\ b.exclude # Absent
    IN /\ q # Absent => last.args.exclude = PyBool(Lower(q.v) = TrueStr)
       /\ (q = Absent /\ in_body /\ b.exclude.t = "bool") => last.args.exclude = b.exclude
       /\ (q = Absent /\ ~in_body) => last.args.exclude = PyBool(TRUE)

\* the num_recommendations a request asks for: the query's, else the body's,
\* else the default
RequestedNum(req) ==
  IF req.q_num # Absent THEN IntOfStr(req.q_num.v)
  ELSE IF req.body.kind = "object" /\ req.body.num # Absent THEN req.body.num.v
  ELSE DefaultNum

\* C9: the count that reaches generate_recommendations is an integer of
\* 1..100: the requested num_recommendations (10 when absent), raised to 1
\* and lowered to 100, from the query string and from the body alike.
C9_CountClamped ==
  Called =>
    /\ last.args.num.t = "int"
    /\ last.args.num.v \in MinNum..MaxNum
    /\ LET n == RequestedNum(last.req)
       IN last.args.num.v = (IF n < MinNum THEN MinNum ELSE IF n > MaxNum THEN MaxNum ELSE n)

\* C10: requests leave the loaded model as it is, so however the steps of
\* concurrent requests interleave, each response is the one the request gets
\* alone, and equal requests get equal responses.
C10_RequestsIndependent ==
  /\ pc = "serving" => MODEL = LoadedModel(blob)
  /\ \A s \in 1..NSlots : slots[s].pc = "done" =>
       [resp |-> slots[s].resp, args |-> slots[s].args]
         = recommendation_function(LoadedModel(blob), slots[s].req)
  /\ \A s, t \in 1..NSlots :
       (slots[s].pc = "done" /\ slots[t].pc = "done" /\ slots[s].req = slots[t].req)
         => slots[s].resp = slots[t].resp

C10_Witness ==
  /\ slots[1].pc = "done" /\ slots[1].resp.status = 200 /\ slots[1].resp.known = "Oui"
  /\ slots[2].pc = "generate" /\ slots[2].req.q_user_id = slots[1].req.q_user_id
  /\ slots[2].req.q_exclude # slots[1].req.q_exclude

====
